---- MODULE Spec2Model ----
(***************************************************************************)
(* Round-Robin CPU scheduling simulator: simulate_rr of src/scheduler.cpp. *)
(*                                                                         *)
(* The state of one call of simulate_rr is the record built by St: the     *)
(* inputs (quantum, max_seq_len, processes), the locals (curr_time, rq,    *)
(* jq, remaining_bursts), the output seq, and pc, the position in the      *)
(* while(true) loop:                                                       *)
(*   "top"   line 31/34, the head of an iteration (also line 52 right      *)
(*           after the bootstrap block, which falls through)               *)
(*   "step"  line 105 or line 211, after the bulk-skip block               *)
(*   "done"  line 242, after a break                                       *)
(* Process ids are list positions (0-based, as processes.at(id) needs);    *)
(* TLA+ sequences are 1-based, so process id lives at index id + 1.        *)
(*                                                                         *)
(* History variables (not in the code): ran[id+1] sums the simulated time  *)
(* the process was dispatched for, nstart/nfinish count the writes of      *)
(* start_time/finish_time, idle sums the time the bootstrap jumps skip,    *)
(* nskip sums the rounds applied by bulk skips, disp lists the dispatches  *)
(* in order (one entry per time slice, a bulk skip adding its slices),     *)
(* each with the set of ids that were in rq when the slice began.          *)
(***************************************************************************)
EXTENDS Integers, Sequences, FiniteSets, TLC

VARIABLES quantum, max_seq_len, processes, curr_time, rq, jq,
          remaining_bursts, seq, pc, ran, nstart, nfinish, idle, nskip,
          disp

vars == <<quantum, max_seq_len, processes, curr_time, rq, jq,
          remaining_bursts, seq, pc, ran, nstart, nfinish, idle, nskip,
          disp>>

\* ---------------------------------------------------------------- bounds
MaxProcs == 3
MaxArrival == 4
MaxBurst == 4
MaxQuantum == 2
MaxCap == 3

\* A max_seq_len no trace of the bounded inputs can reach: one entry per
\* unit of burst and one idle marker per process at most.
NoCap == MaxProcs * (MaxBurst + 1) + 1

Caps == (0 .. MaxCap) \cup {NoCap}

\* ------------------------------------------------------------ the state
St ==
  [quantum |-> quantum, max_seq_len |-> max_seq_len, processes |-> processes,
   curr_time |-> curr_time, rq |-> rq, jq |-> jq,
   remaining_bursts |-> remaining_bursts, seq |-> seq, pc |-> pc,
   ran |-> ran, nstart |-> nstart, nfinish |-> nfinish,
   idle |-> idle, nskip |-> nskip, disp |-> disp]

Install(s) ==
  /\ quantum' = s.quantum
  /\ max_seq_len' = s.max_seq_len
  /\ processes' = s.processes
  /\ curr_time' = s.curr_time
  /\ rq' = s.rq
  /\ jq' = s.jq
  /\ remaining_bursts' = s.remaining_bursts
  /\ seq' = s.seq
  /\ pc' = s.pc
  /\ ran' = s.ran
  /\ nstart' = s.nstart
  /\ nfinish' = s.nfinish
  /\ idle' = s.idle
  /\ nskip' = s.nskip
  /\ disp' = s.disp

\* The Process record of common.h as simulate_rr uses it.
Process(id, arrival, burst) ==
  [id |-> id, arrival_time |-> arrival, burst |-> burst,
   start_time |-> -1, finish_time |-> -1]

\* The state at line 31, after lines 21-29: seq cleared, curr_time 0, jq
\* holding every id in list order, remaining_bursts a copy of the bursts.
Entry(q, cap, procs) ==
  [quantum |-> q, max_seq_len |-> cap, processes |-> procs,
   curr_time |-> 0, rq |-> << >>,
   jq |-> [i \in 1 .. Len(procs) |-> procs[i].id],
   remaining_bursts |-> [i \in 1 .. Len(procs) |-> procs[i].burst],
   seq |-> << >>, pc |-> "top",
   ran |-> [i \in 1 .. Len(procs) |-> 0],
   nstart |-> [i \in 1 .. Len(procs) |-> 0],
   nfinish |-> [i \in 1 .. Len(procs) |-> 0],
   idle |-> 0, nskip |-> 0, disp |-> << >>]

\* Valid inputs: ids are list positions, arrivals ascending, bursts > 0.
ValidLists ==
  UNION { { [i \in 1 .. n |-> Process(i - 1, a[i], b[i])] :
              a \in { f \in [1 .. n -> 0 .. MaxArrival] :
                        \A i \in 1 .. n - 1 : f[i] <= f[i + 1] },
              b \in [1 .. n -> 1 .. MaxBurst] } : n \in 0 .. MaxProcs }

\* ------------------------------------------------------------- helpers
Arrival(s, id) == s.processes[id + 1].arrival_time

Remaining(s, id) == s.remaining_bursts[id + 1]

\* C++ integer division truncates toward zero.
TruncDiv(a, b) == IF a >= 0 THEN a \div b ELSE -((-a) \div b)

Min(a, b) == IF a < b THEN a ELSE b

\* The elements of a queue and the position of one of them.
Range(q) == {q[i] : i \in 1 .. Len(q)}

Pos(q, x) == CHOOSE i \in 1 .. Len(q) : q[i] = x

\* The dispatches of k rounds over queue, in order.
Slices(queue, k) ==
  [x \in 1 .. Len(queue) * k |->
     [id |-> queue[((x - 1) % Len(queue)) + 1], ready |-> Range(queue)]]

\* Op applied to the value of x: sequencing of two statements, the first
\* evaluated once.
Then(x, Op(_)) == CHOOSE r \in {Op(v) : v \in {x}} : TRUE

\* Mutant of SetStart: the test of line 106 is missing, every dispatch
\* writes start_time.
SetStart_Overwrite(s, id, t) ==
  [s EXCEPT !.processes[id + 1].start_time = t, !.nstart[id + 1] = @ + 1]

\* Mutant of SetStart: the write sits inside the capped emission block.
SetStart_IfTraced(s, id, t) ==
  IF s.processes[id + 1].start_time = -1 /\ Len(s.seq) < s.max_seq_len
  THEN [s EXCEPT !.processes[id + 1].start_time = t,
                 !.nstart[id + 1] = @ + 1]
  ELSE s

\* if(start_time == -1) start_time = t;
SetStart(s, id, t) ==
  IF s.processes[id + 1].start_time = -1
  THEN [s EXCEPT !.processes[id + 1].start_time = t,
                 !.nstart[id + 1] = @ + 1]
  ELSE s

\* Mutant of Emit: the test seq.size() < max_seq_len is missing.
Emit_Uncapped(sq, id, cap) ==
  IF sq[Len(sq)] # id THEN Append(sq, id) ELSE sq

\* if(seq.size() < max_seq_len && seq.back() != id) seq.push_back(id);
Emit(sq, id, cap) ==
  IF Len(sq) < cap /\ sq[Len(sq)] # id THEN Append(sq, id) ELSE sq

\* Mutant of EmitBoot: the test curr_time == 0 of line 43 is missing.
EmitBoot_NoTimeTest(sq, id, t, cap) ==
  IF Len(sq) < cap THEN Append(sq, id) ELSE Append(sq, -1)

\* The bootstrap emission: the id when below the cap at time 0, else -1.
EmitBoot(sq, id, t, cap) ==
  IF Len(sq) < cap /\ t = 0 THEN Append(sq, id) ELSE Append(sq, -1)

\* ------------------------------------------------- lines 39-49: bootstrap
DoBootstrap(s) ==
  LET id == s.jq[1]
      t == Arrival(s, id)
  IN [s EXCEPT !.rq = Append(s.rq, id),
               !.jq = Tail(s.jq),
               !.curr_time = t,
               !.idle = @ + (t - s.curr_time),
               !.seq = EmitBoot(s.seq, id, t, s.max_seq_len)]

\* Mutant of DoAdmitArrival: the erase of line 56 is missing.
DoAdmitArrival_NoErase(s) ==
  [s EXCEPT !.rq = Append(s.rq, s.jq[1])]

\* ------------------------------- lines 54-58: arrival exactly at curr_time
DoAdmitArrival(s) ==
  [s EXCEPT !.rq = Append(s.rq, s.jq[1]), !.jq = Tail(s.jq)]

\* ------------------------------------------- lines 64-99, 175-207: bulk skip
\* flag: every ready process has more than one quantum left (the loop of
\* lines 66-74 breaks at the first that has not).
Flag(s) == \A i \in 1 .. Len(s.rq) : Remaining(s, s.rq[i]) > s.quantum

\* min_bursts after the loop of lines 65-74, when it ran to its end.
RECURSIVE MinFrom(_, _, _)
MinFrom(s, i, m) ==
  IF i > Len(s.rq) THEN m
  ELSE MinFrom(s, i + 1, Min(m, Remaining(s, s.rq[i])))

MinBursts(s) == MinFrom(s, 1, Remaining(s, s.rq[1]))

\* Mutant of SkipN: the n-- of lines 77-79 is missing.
SkipN_NoDecrement(min_bursts, q) == TruncDiv(min_bursts, q)

\* lines 76-79 / 187-191: n = min_bursts/quantum, one less on an exact multiple.
SkipN(min_bursts, q) ==
  IF min_bursts % q = 0 THEN TruncDiv(min_bursts, q) - 1
  ELSE TruncDiv(min_bursts, q)

\* Mutant of SkipM: the number of rounds before the arrival is rounded up.
SkipM_Ceiling(arrival, now, size, q) ==
  TruncDiv(arrival - now + size * q - 1, size * q)

\* line 80: m = (arrival - curr_time) / (rq.size() * quantum)
SkipM(arrival, now, size, q) == TruncDiv(arrival - now, size * q)

\* line 81: the next arrival lies beyond one full round.
RoundFits(s) ==
  s.curr_time + Len(s.rq) * s.quantum < Arrival(s, s.jq[1])

\* lines 84-89 / 193-198: the i-th ready process (0-based) gets its staggered
\* start_time if unset and loses quantum*k of remaining burst.
RECURSIVE SkipLoop(_, _, _)
SkipLoop(s, i, k) ==
  IF i >= Len(s.rq) THEN s
  ELSE LET id == s.rq[i + 1]
           s1 == SetStart(s, id, s.curr_time + s.quantum * i)
       IN Then([s1 EXCEPT !.remaining_bursts[id + 1] = @ - s.quantum * k,
                          !.ran[id + 1] = @ + s.quantum * k],
               LAMBDA v : SkipLoop(v, i + 1, k))

\* lines 92-96 / 201-205: one pass over the ready queue, each id emitted
\* under the cap and the compression test.
RECURSIVE EmitCycle(_, _, _, _)
EmitCycle(sq, queue, j, cap) ==
  IF j > Len(queue) THEN sq
  ELSE Then(Emit(sq, queue[j], cap),
            LAMBDA v : EmitCycle(v, queue, j + 1, cap))

\* lines 91-97 / 200-206: for(i = 0; i < k && i < max_seq_len; i++) one pass.
RECURSIVE EmitRounds(_, _, _, _, _)
EmitRounds(sq, queue, i, k, cap) ==
  IF i < k /\ i < cap
  THEN Then(EmitCycle(sq, queue, 1, cap),
            LAMBDA v : EmitRounds(v, queue, i + 1, k, cap))
  ELSE sq

\* lines 84-97 / 193-206: k full rounds applied at once.
SkipRounds(s, k) ==
  LET s1 == SkipLoop(s, 0, k)
  IN [s1 EXCEPT !.curr_time = @ + Len(s.rq) * s.quantum * k,
                !.nskip = @ + k,
                !.disp = @ \o Slices(s.rq, k),
                !.seq = EmitRounds(s.seq, s.rq, 0, k, s.max_seq_len)]

\* lines 64-99, reached with rq and jq non-empty; falls through to line 105.
DoBulkSkipPending(s) ==
  LET n == SkipN(MinBursts(s), s.quantum)
      m == SkipM(Arrival(s, s.jq[1]), s.curr_time, Len(s.rq), s.quantum)
      s1 == IF RoundFits(s) /\ Flag(s) THEN SkipRounds(s, Min(n, m)) ELSE s
  IN [s1 EXCEPT !.pc = "step"]

\* lines 175-207, reached with jq empty and rq.size() > 1; falls through to 211.
DoBulkSkipNoPending(s) ==
  LET n == SkipN(MinBursts(s), s.quantum)
      s1 == IF Flag(s) THEN SkipRounds(s, n) ELSE s
  IN [s1 EXCEPT !.pc = "step"]

\* Mutant of RunQuantum: the quantum is taken from the burst field of the
\* process itself as well as from the working copy.
RunQuantum_InPlace(s) ==
  LET id == s.rq[1]
      s1 == SetStart(s, id, s.curr_time)
  IN [s1 EXCEPT !.curr_time = @ + s.quantum,
                !.seq = Emit(s.seq, id, s.max_seq_len),
                !.remaining_bursts[id + 1] = @ - s.quantum,
                !.processes[id + 1].burst = @ - s.quantum,
                !.ran[id + 1] = @ + s.quantum]

\* ------------------------------- lines 105-113 / 211-219: one quantum runs
RunQuantum(s) ==
  LET id == s.rq[1]
      s1 == SetStart(s, id, s.curr_time)
  IN [s1 EXCEPT !.curr_time = @ + s.quantum,
                !.seq = Emit(s.seq, id, s.max_seq_len),
                !.remaining_bursts[id + 1] = @ - s.quantum,
                !.ran[id + 1] = @ + s.quantum,
                !.disp = Append(@, Slices(s.rq, 1)[1])]

\* lines 115-118: admit every pending process that arrived strictly before
\* curr_time.
RECURSIVE Drain(_)
Drain(s) ==
  IF s.jq # << >> /\ Arrival(s, s.jq[1]) < s.curr_time
  THEN Then([s EXCEPT !.rq = Append(s.rq, s.jq[1]), !.jq = Tail(s.jq)],
            LAMBDA v : Drain(v))
  ELSE s

\* Mutant of Requeue: the preempted head is left at the head.
Requeue_KeepHead(s) ==
  IF s.jq # << >> /\ Arrival(s, s.jq[1]) = s.curr_time
  THEN [s EXCEPT !.rq = Append(s.rq, s.jq[1]), !.jq = Tail(s.jq)]
  ELSE s

\* Mutant of Requeue: a process arriving exactly at curr_time is appended
\* before the preempted head.
Requeue_ArrivalFirst(s) ==
  IF s.jq # << >> /\ Arrival(s, s.jq[1]) = s.curr_time
  THEN [s EXCEPT !.rq = Append(Append(Tail(s.rq), s.jq[1]), s.rq[1]),
                 !.jq = Tail(s.jq)]
  ELSE [s EXCEPT !.rq = Append(Tail(s.rq), s.rq[1])]

\* lines 120-129: the head goes to the tail; a process arriving exactly at
\* curr_time is appended after it.
Requeue(s) ==
  IF s.jq # << >> /\ Arrival(s, s.jq[1]) = s.curr_time
  THEN [s EXCEPT !.rq = Append(Append(Tail(s.rq), s.rq[1]), s.jq[1]),
                 !.jq = Tail(s.jq)]
  ELSE [s EXCEPT !.rq = Append(Tail(s.rq), s.rq[1])]

\* lines 105-131
DoPreemptPending(s) ==
  [Then(Then(RunQuantum(s), Drain), Requeue) EXCEPT !.pc = "top"]

\* Mutant of DoPreemptNoPending: the erase and push_back of lines 221-222
\* are missing, the preempted head stays at the head.
DoPreemptNoPending_KeepHead(s) ==
  Then(RunQuantum(s), LAMBDA v : [v EXCEPT !.pc = "top"])

\* lines 211-223
DoPreemptNoPending(s) ==
  Then(RunQuantum(s),
       LAMBDA v : [v EXCEPT !.rq = Append(Tail(v.rq), v.rq[1]), !.pc = "top"])

\* Mutant of RunToCompletion: the last slice is a whole quantum.
RunToCompletion_FullQuantum(s) ==
  LET id == s.rq[1]
      s1 == SetStart(s, id, s.curr_time)
      t == s.curr_time + s.quantum
  IN [s1 EXCEPT !.curr_time = t,
                !.seq = Emit(s.seq, id, s.max_seq_len),
                !.ran[id + 1] = @ + s.quantum,
                !.remaining_bursts[id + 1] = 0,
                !.processes[id + 1].finish_time = t,
                !.nfinish[id + 1] = @ + 1,
                !.rq = Tail(s.rq)]

\* Mutant of RunToCompletion: finish_time is taken before curr_time advances.
RunToCompletion_StaleFinish(s) ==
  LET id == s.rq[1]
      s1 == SetStart(s, id, s.curr_time)
      t == s.curr_time + Remaining(s, id)
  IN [s1 EXCEPT !.curr_time = t,
                !.seq = Emit(s.seq, id, s.max_seq_len),
                !.ran[id + 1] = @ + Remaining(s, id),
                !.remaining_bursts[id + 1] = 0,
                !.processes[id + 1].finish_time = s.curr_time,
                !.nfinish[id + 1] = @ + 1,
                !.rq = Tail(s.rq)]

\* --------- lines 136-145 / 159-168 / 228-237: the head runs to completion
RunToCompletion(s) ==
  LET id == s.rq[1]
      s1 == SetStart(s, id, s.curr_time)
      t == s.curr_time + Remaining(s, id)
  IN [s1 EXCEPT !.curr_time = t,
                !.seq = Emit(s.seq, id, s.max_seq_len),
                !.ran[id + 1] = @ + Remaining(s, id),
                !.remaining_bursts[id + 1] = 0,
                !.processes[id + 1].finish_time = t,
                !.nfinish[id + 1] = @ + 1,
                !.rq = Tail(s.rq),
                !.disp = Append(@, Slices(s.rq, 1)[1])]

\* Mutant of AdmitOne: nothing is admitted on a completion.
AdmitOne_None(s) == s

\* Mutant of AdmitOne: a process arriving exactly at the completion instant
\* is not admitted.
AdmitOne_Strict(s) ==
  IF Arrival(s, s.jq[1]) < s.curr_time
  THEN [s EXCEPT !.rq = Append(s.rq, s.jq[1]), !.jq = Tail(s.jq)]
  ELSE s

\* lines 146-149: at most one pending process is admitted on a completion.
AdmitOne(s) ==
  IF Arrival(s, s.jq[1]) <= s.curr_time
  THEN [s EXCEPT !.rq = Append(s.rq, s.jq[1]), !.jq = Tail(s.jq)]
  ELSE s

\* lines 135-151
DoCompletePending(s) ==
  [Then(RunToCompletion(s), AdmitOne) EXCEPT !.pc = "top"]

\* lines 227-239
DoCompleteNoPending(s) == [RunToCompletion(s) EXCEPT !.pc = "top"]

\* Mutant of DoLastProcess: breaks without the erase of line 168.
DoLastProcess_KeepsQueue(s) ==
  [RunToCompletion(s) EXCEPT !.rq = s.rq, !.pc = "done"]

\* lines 158-170: the only process left runs to its end, then break.
DoLastProcess(s) == [RunToCompletion(s) EXCEPT !.pc = "done"]

\* lines 34-36: both queues empty, break.
DoExit(s) == [s EXCEPT !.pc = "done"]

\* ------------------------------------------------ guards of the branches
AtExit(s) == s.pc = "top" /\ s.rq = << >> /\ s.jq = << >>

AtBootstrap(s) == s.pc = "top" /\ s.rq = << >> /\ s.jq # << >>

AtAdmitArrival(s) ==
  /\ s.pc = "top" /\ s.rq # << >> /\ s.jq # << >>
  /\ Arrival(s, s.jq[1]) = s.curr_time

AtBulkSkipPending(s) ==
  /\ s.pc = "top" /\ s.rq # << >> /\ s.jq # << >>
  /\ Arrival(s, s.jq[1]) # s.curr_time

AtPreemptPending(s) ==
  s.pc = "step" /\ s.jq # << >> /\ Remaining(s, s.rq[1]) > s.quantum

AtCompletePending(s) ==
  s.pc = "step" /\ s.jq # << >> /\ Remaining(s, s.rq[1]) <= s.quantum

AtLastProcess(s) == s.pc = "top" /\ s.jq = << >> /\ Len(s.rq) = 1

AtBulkSkipNoPending(s) == s.pc = "top" /\ s.jq = << >> /\ Len(s.rq) > 1

AtPreemptNoPending(s) ==
  s.pc = "step" /\ s.jq = << >> /\ Remaining(s, s.rq[1]) > s.quantum

AtCompleteNoPending(s) ==
  s.pc = "step" /\ s.jq = << >> /\ Remaining(s, s.rq[1]) <= s.quantum

\* ------------------------------------------------------ the state machine
Init ==
  \E q \in 1 .. MaxQuantum, cap \in Caps, procs \in ValidLists :
    /\ quantum = q
    /\ max_seq_len = cap
    /\ processes = procs
    /\ curr_time = 0
    /\ rq = << >>
    /\ jq = Entry(q, cap, procs).jq
    /\ remaining_bursts = Entry(q, cap, procs).remaining_bursts
    /\ seq = << >>
    /\ pc = "top"
    /\ ran = Entry(q, cap, procs).ran
    /\ nstart = Entry(q, cap, procs).nstart
    /\ nfinish = Entry(q, cap, procs).nfinish
    /\ idle = 0
    /\ nskip = 0
    /\ disp = << >>

\* Each action is one branch of the loop body: taken where its guard holds,
\* it replaces the state by the branch's result.
Exit ==
  \E cur \in {St} :
    AtExit(cur) /\ \E nxt \in {DoExit(cur)} : Install(nxt)

Bootstrap ==
  \E cur \in {St} :
    AtBootstrap(cur) /\ \E nxt \in {DoBootstrap(cur)} : Install(nxt)

AdmitArrival ==
  \E cur \in {St} :
    AtAdmitArrival(cur) /\ \E nxt \in {DoAdmitArrival(cur)} : Install(nxt)

BulkSkipPending ==
  \E cur \in {St} :
    AtBulkSkipPending(cur) /\ \E nxt \in {DoBulkSkipPending(cur)} : Install(nxt)

PreemptPending ==
  \E cur \in {St} :
    AtPreemptPending(cur) /\ \E nxt \in {DoPreemptPending(cur)} : Install(nxt)

CompletePending ==
  \E cur \in {St} :
    AtCompletePending(cur) /\ \E nxt \in {DoCompletePending(cur)} : Install(nxt)

LastProcess ==
  \E cur \in {St} :
    AtLastProcess(cur) /\ \E nxt \in {DoLastProcess(cur)} : Install(nxt)

BulkSkipNoPending ==
  \E cur \in {St} :
    AtBulkSkipNoPending(cur) /\ \E nxt \in {DoBulkSkipNoPending(cur)} : Install(nxt)

PreemptNoPending ==
  \E cur \in {St} :
    AtPreemptNoPending(cur) /\ \E nxt \in {DoPreemptNoPending(cur)} : Install(nxt)

CompleteNoPending ==
  \E cur \in {St} :
    AtCompleteNoPending(cur) /\ \E nxt \in {DoCompleteNoPending(cur)} : Install(nxt)

Next ==
  \/ Exit
  \/ Bootstrap
  \/ AdmitArrival
  \/ BulkSkipPending
  \/ PreemptPending
  \/ CompletePending
  \/ LastProcess
  \/ BulkSkipNoPending
  \/ PreemptNoPending
  \/ CompleteNoPending

Spec == Init /\ [][Next]_vars

\* The loop runs on its own: a step that can be taken is taken.
FairSpec == Spec /\ WF_vars(Next)

\* ------------------------------------------------- whole runs, as functions
\* One pass of the loop body from state s. With bulk FALSE both bulk-skip
\* blocks (lines 60-99 and 172-207) are left out: the run then advances one
\* quantum at a time.
StepOf(s, bulk) ==
  CASE AtExit(s) -> DoExit(s)
    [] AtBootstrap(s) -> DoBootstrap(s)
    [] AtAdmitArrival(s) -> DoAdmitArrival(s)
    [] AtBulkSkipPending(s) ->
         IF bulk THEN DoBulkSkipPending(s) ELSE [s EXCEPT !.pc = "step"]
    [] AtPreemptPending(s) -> DoPreemptPending(s)
    [] AtCompletePending(s) -> DoCompletePending(s)
    [] AtLastProcess(s) -> DoLastProcess(s)
    [] AtBulkSkipNoPending(s) ->
         IF bulk THEN DoBulkSkipNoPending(s) ELSE [s EXCEPT !.pc = "step"]
    [] AtPreemptNoPending(s) -> DoPreemptNoPending(s)
    [] AtCompleteNoPending(s) -> DoCompleteNoPending(s)

RECURSIVE RunFrom(_, _)
RunFrom(s, bulk) ==
  IF s.pc = "done" THEN s
  ELSE Then(StepOf(s, bulk), LAMBDA v : RunFrom(v, bulk))

\* The list as the caller hands it in: start_time (and finish_time) unset.
Unset(procs) ==
  [i \in 1 .. Len(procs) |->
     [procs[i] EXCEPT !.start_time = -1, !.finish_time = -1]]

\* simulate_rr(q, cap, processes, seq) run to its return on the input of the
\* current behaviour.
Rerun(q, cap, bulk) == RunFrom(Entry(q, cap, Unset(processes)), bulk)

Ids == 1 .. Len(processes)

RECURSIVE SumTo(_, _)
SumTo(f, n) == IF n = 0 THEN 0 ELSE f[n] + SumTo(f, n - 1)

Take(sq, n) == SubSeq(sq, 1, Min(n, Len(sq)))

TypeOK ==
  /\ pc \in {"top", "step", "done"}
  /\ curr_time \in Nat
  /\ \A i \in 1 .. Len(processes) : remaining_bursts[i] \in Int
  /\ (pc = "step" => rq # << >>)
  /\ (rq # << >> => seq # << >>)

\* ================================================================ claims

\* C1: on a valid input, with max_seq_len so large that the cap never
\* applies, the run with the bulk-skip blocks ends with the same start_time
\* and finish_time of every process and the same trace as the run that
\* leaves both blocks out and advances one quantum at a time.
C1_BulkSkipEquivalence ==
  (pc = "done" /\ max_seq_len = NoCap) =>
    LET naive == Rerun(quantum, max_seq_len, FALSE)
    IN /\ Len(seq) < max_seq_len
       /\ naive.nskip = 0
       /\ naive.processes = processes
       /\ naive.seq = seq

\* A finished uncapped run in which a bulk skip of two rounds over two ready
\* processes ended exactly at the arrival of a third.
C1_Witness ==
  /\ pc = "done" /\ max_seq_len = NoCap /\ quantum = 1 /\ nskip >= 2
  /\ Len(processes) = 3
  /\ processes[1].arrival_time = 0 /\ processes[1].burst >= 3
  /\ processes[2].arrival_time = 0 /\ processes[2].burst >= 3
  /\ processes[3].arrival_time = 4

\* C2: the remaining burst of a process is never negative, the time it was
\* dispatched for plus its remaining burst is its burst, the clock is the
\* idle time plus all dispatched time, and at the end every process was
\* dispatched for exactly its burst.
C2_Conservation ==
  /\ \A i \in Ids : /\ remaining_bursts[i] >= 0
                    /\ ran[i] + remaining_bursts[i] = processes[i].burst
  /\ curr_time = idle + SumTo(ran, Len(processes))
  /\ (pc = "done" => \A i \in Ids : ran[i] = processes[i].burst)

\* A finished run with a bulk skip in which every process needed more than
\* one quantum and ended on a partial slice.
C2_Witness ==
  /\ pc = "done" /\ nskip >= 1 /\ Len(processes) >= 2
  /\ \A i \in Ids : processes[i].burst % quantum # 0
                    /\ processes[i].burst > quantum

\* C3: start_time of a process is written once, at the step of its first
\* dispatch, never changed afterwards, and is at least its arrival_time.
C3_StartOnce ==
  /\ [](\A i \in Ids :
          /\ nstart[i] <= 1
          /\ (nstart[i] = 0 <=> processes[i].start_time = -1)
          /\ (processes[i].start_time # -1 =>
                processes[i].start_time >= processes[i].arrival_time)
          /\ (pc = "done" => nstart[i] = 1))
  /\ [][\A i \in Ids :
          /\ (processes[i].start_time # -1 =>
                processes'[i].start_time = processes[i].start_time)
          /\ ((processes[i].start_time = -1 /\ processes'[i].start_time # -1)
                <=> (ran[i] = 0 /\ ran'[i] > 0))]_vars

\* A process that was dispatched again (preempted and resumed, or bulk
\* skipped and stepped) after its start_time was written.
C3_Witness ==
  \E i \in Ids : /\ nstart[i] = 1
                 /\ ran[i] >= 2 * quantum
                 /\ processes[i].start_time > processes[i].arrival_time
                 /\ nskip >= 1

\* C4: finish_time of a process is written once, in the step that takes its
\* remaining burst to 0, as the curr_time after that step; at the end every
\* finish_time is greater than the start_time.
C4_FinishOnce ==
  /\ [](\A i \in Ids :
          /\ nfinish[i] = (IF remaining_bursts[i] = 0 THEN 1 ELSE 0)
          /\ (pc = "done" =>
                /\ nfinish[i] = 1
                /\ processes[i].finish_time > processes[i].start_time))
  /\ [][\A i \in Ids :
          IF remaining_bursts[i] > 0 /\ remaining_bursts'[i] = 0
          THEN /\ processes'[i].finish_time = curr_time'
               /\ nfinish'[i] = nfinish[i] + 1
          ELSE /\ processes'[i].finish_time = processes[i].finish_time
               /\ nfinish'[i] = nfinish[i]]_vars

\* A finished run where some process finished before the last one did.
C4_Witness ==
  /\ pc = "done" /\ Len(processes) >= 2
  /\ \E i, j \in Ids : /\ processes[i].finish_time < processes[j].finish_time
                       /\ processes[i].finish_time < curr_time
                       /\ processes[i].burst > quantum

\* C5: the trace never holds two equal consecutive entries, for any
\* max_seq_len.
C5_NoRepeat == \A i \in 1 .. Len(seq) - 1 : seq[i] # seq[i + 1]

\* C6: the returned trace has at most max_seq_len entries.
C6_TraceCap == pc = "done" => Len(seq) <= max_seq_len

\* C7: the returned trace is the trace of the same input under an unbounded
\* cap, cut to its first max_seq_len entries.
C7_TraceIsTrimmed ==
  pc = "done" => seq = Take(Rerun(quantum, NoCap, TRUE).seq, max_seq_len)

\* C8: the loop terminates, and then both queues are empty, every remaining
\* burst is 0 and every finish_time has been written.
C8_Termination ==
  <>(/\ pc = "done"
     /\ rq = << >>
     /\ jq = << >>
     /\ \A i \in Ids : remaining_bursts[i] = 0 /\ nfinish[i] = 1)

\* A terminated run of a full list in which the CPU was idle in between.
C8_Witness ==
  pc = "done" /\ Len(processes) = MaxProcs /\ idle > 0 /\ nskip > 0

\* C9: start_time and finish_time at the end are the same for every
\* max_seq_len, 0 included.
C9_TimesIgnoreCap ==
  pc = "done" =>
    \A cap \in Caps : Rerun(quantum, cap, TRUE).processes = processes

\* A finished run whose trace was cut by the cap.
C9_Witness ==
  /\ pc = "done" /\ max_seq_len = 1 /\ Len(processes) >= 2
  /\ Len(Rerun(quantum, NoCap, TRUE).seq) > 2

\* Scenario B of the specification: P0(arrival 0, burst 4), P1(arrival 1,
\* burst 4), quantum 2, the cap large enough.
ScenarioB ==
  /\ quantum = 2
  /\ max_seq_len >= 4
  /\ Len(processes) = 2
  /\ processes[1].arrival_time = 0 /\ processes[1].burst = 4
  /\ processes[2].arrival_time = 1 /\ processes[2].burst = 4

\* C10, as stated: scenario B ends with trace [P0, P1, P0, P1], P0 started
\* at 0, P1 started at 2 and P0 finished at 8.
C10_ScenarioB_Original ==
  (ScenarioB /\ pc = "done") =>
    /\ seq = <<0, 1, 0, 1>>
    /\ processes[1].start_time = 0
    /\ processes[2].start_time = 2
    /\ processes[1].finish_time = 8

\* C10, amended: scenario B ends with trace [P0, P1, P0, P1], P0 started at
\* 0, P1 started at 2, P0 finished at 6 and P1 finished at 8.
C10_ScenarioB ==
  (ScenarioB /\ pc = "done") =>
    /\ seq = <<0, 1, 0, 1>>
    /\ processes[1].start_time = 0
    /\ processes[2].start_time = 2
    /\ processes[1].finish_time = 6
    /\ processes[2].finish_time = 8

C10_Witness == ScenarioB /\ pc = "done"

\* C11: once the first process has been dispatched, the trace begins with
\* the idle marker followed by that process's id if it arrived after time 0
\* (max_seq_len >= 2), and with its id, without a leading idle marker, if it
\* arrived at time 0 (max_seq_len >= 1).
C11_FirstEntry ==
  (Len(processes) >= 1 /\ ran[1] > 0) =>
    /\ (processes[1].arrival_time > 0 /\ max_seq_len >= 2) =>
         (Len(seq) >= 2 /\ seq[1] = -1 /\ seq[2] = processes[1].id)
    /\ (processes[1].arrival_time = 0 /\ max_seq_len >= 1) =>
         (Len(seq) >= 1 /\ seq[1] = processes[1].id)

\* A finished run whose first process arrived after time 0, under a cap of
\* at least 2.
C11_Witness ==
  /\ pc = "done" /\ Len(processes) >= 2 /\ max_seq_len >= 2
  /\ processes[1].arrival_time > 0 /\ seq[1] = -1

\* C12: no step changes the length or the order of processes or the id,
\* arrival_time or burst of any of its elements; only start_time and
\* finish_time change.
C12_Frame ==
  [][/\ Len(processes') = Len(processes)
     /\ \A i \in Ids : /\ processes'[i].id = processes[i].id
                       /\ processes'[i].arrival_time = processes[i].arrival_time
                       /\ processes'[i].burst = processes[i].burst
                       /\ DOMAIN processes'[i] = DOMAIN processes[i]]_vars

\* A finished run with a bulk skip in which a process that needed more than
\* one quantum has both of its time fields written.
C12_Witness ==
  /\ pc = "done" /\ nskip >= 1
  /\ \E i \in Ids : /\ processes[i].burst > quantum
                    /\ processes[i].start_time >= 0
                    /\ processes[i].finish_time > processes[i].start_time

\* The step is the preemption of the head of rq with processes pending.
PreemptsWithPending == AtPreemptPending(St)

\* A bulk skip has just ended exactly at the arrival of the head of jq.
SkipEndedAtArrival ==
  pc = "step" /\ jq # << >> /\ processes[jq[1] + 1].arrival_time = curr_time

\* C13: when the head is preempted with processes pending, every pending
\* process that arrived strictly before the new curr_time is in rq ahead of
\* the preempted process, and a pending process arriving exactly at the new
\* curr_time is behind it (the first of them directly behind it).  When a
\* bulk skip ended exactly at the arrival of the head of jq, the next
\* dispatch is of the head of rq, and the arriving process enters rq behind
\* every other process of the skipped rounds and ahead of the process that
\* ran after that instant.
C13_TieBreak ==
  [][/\ PreemptsWithPending =>
          /\ rq[1] \in Range(rq')
          /\ \A j \in Range(jq) :
               /\ processes[j + 1].arrival_time < curr_time' =>
                    (j \in Range(rq') /\ Pos(rq', j) < Pos(rq', rq[1]))
               /\ processes[j + 1].arrival_time = curr_time' =>
                    (j \in Range(rq') => Pos(rq', rq[1]) < Pos(rq', j))
          /\ \A j \in Range(jq) :
               (/\ processes[j + 1].arrival_time = curr_time'
                /\ \A i \in Range(jq) :
                     processes[i + 1].arrival_time = curr_time' => j <= i)
               => (j \in Range(rq') /\ Pos(rq', j) = Pos(rq', rq[1]) + 1)
     /\ SkipEndedAtArrival =>
          /\ \A i \in Ids : ran'[i] # ran[i] <=> i = rq[1] + 1
          /\ jq[1] \in Range(rq')
          /\ \A p \in Range(Tail(rq)) : Pos(rq', p) < Pos(rq', jq[1])
          /\ rq[1] \in Range(rq') => Pos(rq', jq[1]) < Pos(rq', rq[1])]_vars

\* Process 0 alone was bulk-skipped up to the arrival of process 1, ran one
\* more quantum and was preempted at the arrival of process 2: process 1
\* (arrived strictly earlier) is ahead of it and process 2 behind it.
C13_Witness ==
  /\ pc = "top" /\ rq = <<1, 0, 2>> /\ quantum = 1 /\ nskip >= 1 /\ idle = 0
  /\ processes[2].arrival_time = nskip
  /\ processes[3].arrival_time = curr_time
  /\ curr_time = nskip + 1
  /\ ran[2] = 0 /\ ran[3] = 0

\* The step is a bulk-skip block whose condition (line 79 / line 189) holds.
SkipApplies ==
  \/ AtBulkSkipPending(St) /\ RoundFits(St) /\ Flag(St)
  \/ AtBulkSkipNoPending(St) /\ Flag(St)

\* C14: a bulk skip that is applied skips k >= 1 full rounds, leaves every
\* ready process with a positive remaining burst, writes no finish_time,
\* leaves rq (and jq) as they were, and ends at or before the arrival of the
\* head of jq.
C14_BulkSkipSafe ==
  [][SkipApplies =>
       LET k == nskip' - nskip
       IN /\ k >= 1
          /\ curr_time' = curr_time + Len(rq) * quantum * k
          /\ \A i \in 1 .. Len(rq) :
               /\ remaining_bursts'[rq[i] + 1] > 0
               /\ remaining_bursts'[rq[i] + 1] =
                    remaining_bursts[rq[i] + 1] - quantum * k
          /\ \A i \in Ids : processes'[i].finish_time = processes[i].finish_time
          /\ nfinish' = nfinish
          /\ rq' = rq /\ jq' = jq
          /\ jq # << >> => curr_time' <= processes[jq[1] + 1].arrival_time]_vars

\* Right after a bulk skip over two ready processes with a process pending.
C14_Witness ==
  /\ pc = "step" /\ Len(rq) = 2 /\ jq # << >> /\ nskip >= 1 /\ idle = 0
  /\ curr_time = 2 * quantum * nskip
  /\ \A i \in 1 .. 2 : ran[rq[i] + 1] = quantum * nskip

\* The variant of C15: on a completion with processes pending, every pending
\* process with arrival_time <= curr_time moves to rq, in arrival order.
RECURSIVE AdmitAll(_)
AdmitAll(s) ==
  IF s.jq # << >> /\ Arrival(s, s.jq[1]) <= s.curr_time
  THEN Then([s EXCEPT !.rq = Append(s.rq, s.jq[1]), !.jq = Tail(s.jq)],
            LAMBDA v : AdmitAll(v))
  ELSE s

\* One iteration of the variant: as StepOf but for the completion with
\* processes pending.
StepOfAll(s) ==
  IF AtCompletePending(s)
  THEN [Then(RunToCompletion(s), AdmitAll) EXCEPT !.pc = "top"]
  ELSE StepOf(s, TRUE)

RECURSIVE RunAllFrom(_)
RunAllFrom(s) ==
  IF s.pc = "done" THEN s
  ELSE Then(StepOfAll(s), LAMBDA v : RunAllFrom(v))

\* C15: every finished run has the start_time and finish_time of every
\* process and the trace of the variant that admits all eligible pending
\* processes on a completion, run on the same input.
C15_AdmitOneIsAdmitAll ==
  pc = "done" =>
    LET all == RunAllFrom(Entry(quantum, max_seq_len, Unset(processes)))
    IN /\ all.processes = processes
       /\ all.seq = seq

\* A finished run in which process 0 completed in its first slice while
\* processes 1 and 2 had both arrived, after time 0 and strictly before the
\* completion.
C15_Witness ==
  /\ pc = "done" /\ Len(processes) = 3 /\ max_seq_len = NoCap
  /\ processes[1].arrival_time = 0 /\ processes[1].burst <= quantum
  /\ processes[2].arrival_time > 0
  /\ processes[3].arrival_time < processes[1].burst

\* Dispatches i < j of disp are consecutive dispatches of the same process.
ConsecutiveDispatches(i, j) ==
  /\ disp[i].id = disp[j].id
  /\ \A x \in i + 1 .. j - 1 : disp[x].id # disp[i].id

\* C16: the remaining burst of a process changes only when it is the head of
\* rq (or, in a bulk skip, a member of rq); a preempted head is in rq behind
\* every process that was in rq with it, whose order is kept, and a completed
\* head leaves the others in order; and between two consecutive dispatches
\* of a process every other process that was in rq at the first of them is
\* dispatched exactly once.
C16_StrictFifo ==
  /\ [](\A i \in 1 .. Len(disp), j \in 1 .. Len(disp) :
          (i < j /\ ConsecutiveDispatches(i, j)) =>
            \A r \in disp[i].ready \ {disp[i].id} :
              Cardinality({x \in i + 1 .. j - 1 : disp[x].id = r}) = 1)
  /\ [][/\ \A i \in Ids :
             remaining_bursts'[i] # remaining_bursts[i] =>
               /\ rq # << >>
               /\ \/ i = rq[1] + 1 /\ ~SkipApplies
                  \/ (i - 1) \in Range(rq) /\ SkipApplies
        /\ (pc = "step" /\ remaining_bursts[rq[1] + 1] > quantum) =>
             /\ Len(rq') >= Len(rq)
             /\ SubSeq(rq', 1, Len(rq) - 1) = Tail(rq)
             /\ rq[1] \in Range(rq')
             /\ \A p \in Range(Tail(rq)) : Pos(rq', p) < Pos(rq', rq[1])
        /\ (pc = "step" /\ remaining_bursts[rq[1] + 1] <= quantum) =>
             /\ Len(rq') >= Len(rq) - 1
             /\ SubSeq(rq', 1, Len(rq) - 1) = Tail(rq)
             /\ rq[1] \notin Range(rq')]_vars

\* A finished run with a bulk skip in which three processes were ready
\* together and one of them was dispatched again after the two others.
C16_Witness ==
  /\ pc = "done" /\ nskip >= 1
  /\ \E i \in 1 .. Len(disp) :
       /\ Cardinality(disp[i].ready) = 3
       /\ i + 3 <= Len(disp)
       /\ ConsecutiveDispatches(i, i + 3)

\* The number of positions of queue q that hold x.
Occurrences(q, x) == Cardinality({i \in 1 .. Len(q) : q[i] = x})

\* C17: each process id occurs at most once in rq and jq together, rq holds
\* only ids with a positive remaining burst and an arrival_time <= curr_time,
\* and an id whose remaining burst is 0 is in neither queue.
C17_QueueMembership ==
  /\ \A i \in Ids : Occurrences(rq, i - 1) + Occurrences(jq, i - 1) <= 1
  /\ Range(rq) \cup Range(jq) \subseteq {i - 1 : i \in Ids}
  /\ \A id \in Range(rq) : /\ remaining_bursts[id + 1] > 0
                           /\ processes[id + 1].arrival_time <= curr_time
  /\ \A i \in Ids : remaining_bursts[i] = 0 =>
                      ((i - 1) \notin Range(rq) /\ (i - 1) \notin Range(jq))

\* One process has completed, one is ready after a preemption and one is
\* still pending.
C17_Witness ==
  /\ Len(processes) = 3 /\ Len(rq) = 1 /\ Len(jq) = 1
  /\ ran[rq[1] + 1] > 0
  /\ \E i \in Ids : remaining_bursts[i] = 0 /\ nfinish[i] = 1

\* C18: every step only appends to the trace; a process id is appended only
\* at a position within the first max_seq_len, an idle marker only by the
\* bootstrap block; and the trace is never longer than max_seq_len plus the
\* number of idle markers in it.
C18_IdsAreCapped ==
  /\ [](Len(seq) <= max_seq_len + Occurrences(seq, -1))
  /\ [][/\ Len(seq') >= Len(seq)
        /\ SubSeq(seq', 1, Len(seq)) = seq
        /\ \A p \in Len(seq) + 1 .. Len(seq') :
             /\ seq'[p] # -1 => p - 1 < max_seq_len
             /\ seq'[p] = -1 => AtBootstrap(St)]_vars

\* A finished run under a small positive cap whose trace is full, holds an
\* idle marker beyond the cap's count and lacks entries the uncapped run has.
C18_Witness ==
  /\ pc = "done" /\ max_seq_len \in 1 .. MaxCap
  /\ Occurrences(seq, -1) >= 1
  /\ Len(seq) = max_seq_len + Occurrences(seq, -1)
  /\ Len(Rerun(quantum, NoCap, TRUE).seq) > Len(seq)

\* C19: an idle marker is appended only by a bootstrap that moves curr_time
\* forward over a non-empty interval; so the bootstrap of a first process
\* that arrives at time 0 appends none, whatever max_seq_len is.
C19_IdleMarkerMeansIdle ==
  [][\A p \in Len(seq) + 1 .. Len(seq') :
       seq'[p] = -1 => (AtBootstrap(St) /\ curr_time' > curr_time)]_vars

\* C20: curr_time never decreases, and whenever the bootstrap block moves
\* curr_time forward, every process that arrived before the new curr_time
\* has remaining burst 0 and no process ran in the skipped interval.
C20_WorkConservation ==
  [][/\ curr_time' >= curr_time
     /\ (AtBootstrap(St) /\ curr_time' > curr_time) =>
          /\ curr_time' = processes[jq[1] + 1].arrival_time
          /\ ran' = ran
          /\ \A i \in Ids :
               processes[i].arrival_time < curr_time' =>
                 (remaining_bursts'[i] = 0 /\ nfinish[i] = 1)]_vars

\* Right after a bootstrap that jumped over an idle interval following the
\* completion of an earlier process.
C20_Witness ==
  /\ pc = "top" /\ Len(rq) = 1 /\ ran[rq[1] + 1] = 0
  /\ curr_time = processes[rq[1] + 1].arrival_time
  /\ seq[Len(seq)] = -1
  /\ \E i \in Ids : /\ nfinish[i] = 1
                    /\ processes[i].finish_time < curr_time

====
